---------------------------- MODULE Spec2Model ----------------------------
(***************************************************************************)
(* Route rain-risk analysis of rain_route_cli.py: polyline sampling,       *)
(* weather bundle fusion, rain classification, route analysis (concurrent  *)
(* fetch, segmentation, score) and route selection.                        *)
(*                                                                         *)
(* Units.  A coordinate is a pair <<lat, lon>> of integers counted in      *)
(* 1e-5 degree, the resolution polyline.decode delivers.  Routes of the    *)
(* model run along a meridian, where geodesic() is taken as one metre per  *)
(* unit, so that the linear interpolation of sample_coords_by_distance is  *)
(* exact.  Rain amounts are integers counted in 0.1 mm; effective_mm is    *)
(* counted in 0.05 mm because of the weight 0.5.  Floating point values    *)
(* are modelled as exact rationals.                                        *)
(***************************************************************************)
EXTENDS Integers, Sequences, FiniteSets, TLC

\* ------------------------------------------------------------------------
\* Program constants
\* ------------------------------------------------------------------------
SAMPLES_FAST == 8
SAMPLE_INTERVAL_METERS == 500
LONG_INTERVAL_METERS == 1000
LONG_ROUTE_THRESHOLD_KM == 30
\* RAIN_RATIO_WEIGHT = 0.7 and RAIN_INTENSITY_WEIGHT = 0.3, in tenths
RAIN_RATIO_WEIGHT == 7
RAIN_INTENSITY_WEIGHT == 3
WEIGHT_DEN == 10
\* the divisor 30.0 (mm/h) of the intensity term
INTENSITY_NORM_MM == 30
\* NEXT_MM_WEIGHT = 0.5 = 1 / NEXT_MM_WEIGHT_DEN
NEXT_MM_WEIGHT_DEN == 2
\* NEXT_MM_MIN_MM = 0.2 mm, in 0.1 mm
NEXT_MM_MIN_MM == 2
THUNDER_MIN == 95
THUNDER_MAX == 99
\* _grid_key's step = 0.02 degree, in 1e-5 degree
GRID_STEP == 2000

\* ------------------------------------------------------------------------
\* Bounds of the model
\* ------------------------------------------------------------------------
\* longest polyline handed to the sampling functions
MaxLen == 3
\* longest polyline handed to analyze_route
MaxRouteLen == 4
\* most candidate routes handed to the route selection
MaxRoutes == 3

\* ------------------------------------------------------------------------
\* Arithmetic helpers
\* ------------------------------------------------------------------------
Max(a, b) == IF a >= b THEN a ELSE b
Min(a, b) == IF a <= b THEN a ELSE b
Abs(a) == IF a >= 0 THEN a ELSE -a

\* Python's round(n / d) for integers n >= 0, d > 0: ties go to the even integer
RoundHalfEven(n, d) ==
    LET q == n \div d
        r == n % d
    IN  IF 2 * r < d THEN q
        ELSE IF 2 * r > d THEN q + 1
        ELSE IF q % 2 = 0 THEN q ELSE q + 1

\* all sequences over S of length lo..hi
SeqsOf(S, lo, hi) == UNION { [1..n -> S] : n \in lo..hi }

Last(s) == s[Len(s)]

\* ------------------------------------------------------------------------
\* Geometry
\* ------------------------------------------------------------------------
Lats == {0, 300, 1000, 1800, 3000}
Lons == {0}
Points == Lats \X Lons

\* geopy's geodesic(a, b).meters on the meridian routes of the model
geodesic(a, b) == Abs(a[1] - b[1]) + Abs(a[2] - b[2])

\* _grid_key(lat, lon, step = 0.02)
_grid_key(lat, lon) ==
    << RoundHalfEven(lat, GRID_STEP) * GRID_STEP,
       RoundHalfEven(lon, GRID_STEP) * GRID_STEP >>

\* ------------------------------------------------------------------------
\* Geo-Sampler
\* ------------------------------------------------------------------------
\* The while loop of sample_coords_by_distance on the raw leg raw -> p.
\* w = [samples, last, dist, seg, marks]; carry is the carry-over the leg was
\* entered with: the loop never assigns it.  marks is a measurement, not
\* program state: the true path distance from coords[0] of every interpolated
\* sample (base = path length up to raw).
RECURSIVE DistanceWhile(_, _, _, _, _, _)
DistanceWhile(w, p, raw, base, carry, interval_m) ==
    IF w.dist >= interval_m /\ w.seg > 0
    THEN LET num == interval_m - carry
             lat == w.last[1] + ((p[1] - w.last[1]) * num) \div w.seg
             lon == w.last[2] + ((p[2] - w.last[2]) * num) \div w.seg
             pt  == << lat, lon >>
         IN  DistanceWhile([samples |-> Append(w.samples, pt),
                            last    |-> pt,
                            dist    |-> w.dist - interval_m,
                            seg     |-> geodesic(pt, p),
                            marks   |-> Append(w.marks, base + geodesic(raw, pt))],
                           p, raw, base, carry, interval_m)
    ELSE w

\* The for loop of sample_coords_by_distance from index i on (1-based).
\* f = [samples, carry, last, marks, base]
RECURSIVE DistanceFor(_, _, _, _)
DistanceFor(coords, i, f, interval_m) ==
    IF i > Len(coords) THEN f
    ELSE LET p   == coords[i]
             seg == geodesic(f.last, p)
             w   == DistanceWhile([samples |-> f.samples, last |-> f.last,
                                   dist |-> f.carry + seg, seg |-> seg,
                                   marks |-> f.marks],
                                  p, f.last, f.base, f.carry, interval_m)
         IN  DistanceFor(coords, i + 1,
                         [samples |-> w.samples, carry |-> w.dist, last |-> p,
                          marks |-> w.marks, base |-> f.base + seg],
                         interval_m)

\* the loop of sample_coords_by_distance, run on coords of length >= 2
DistanceWalk(coords, interval_m) ==
    DistanceFor(coords, 2,
                [samples |-> << coords[1] >>, carry |-> 0, last |-> coords[1],
                 marks |-> << >>, base |-> 0],
                interval_m)

\* mutant: the early return also taken for two points
sample_coords_by_distance_le2(coords, interval_m) ==
    IF Len(coords) <= 2 THEN coords
    ELSE LET samples == DistanceWalk(coords, interval_m).samples
         IN  IF Last(samples) # Last(coords)
             THEN Append(samples, Last(coords)) ELSE samples

sample_coords_by_distance(coords, interval_m) ==
    IF Len(coords) < 2 THEN coords
    ELSE LET samples == DistanceWalk(coords, interval_m).samples
         IN  IF Last(samples) # Last(coords)
             THEN Append(samples, Last(coords)) ELSE samples

\* path distance from coords[0] of the interpolated samples, in order
InterpolatedMarks(coords, interval_m) ==
    IF Len(coords) < 2 THEN << >> ELSE DistanceWalk(coords, interval_m).marks

\* coords[::step]
Stride(coords, step) ==
    IF Len(coords) = 0 THEN << >>
    ELSE [k \in 1..(((Len(coords) - 1) \div step) + 1) |-> coords[1 + (k - 1) * step]]

sample_coords(coords, n_points) ==
    IF Len(coords) <= 2 THEN coords
    ELSE LET step == Max(1, Len(coords) \div n_points)
             pts  == Stride(coords, step)
         IN  IF Len(pts) > 0 /\ Last(pts) # Last(coords)
             THEN [pts EXCEPT ![Len(pts)] = Last(coords)]
             ELSE pts

\* ------------------------------------------------------------------------
\* Weather Signal Fetcher
\* ------------------------------------------------------------------------
\* An optional value (Python None or a number) is << >> or << v >>.
None == << >>
Some(v) == << v >>
\* Python's `x or y` on optional numbers: x unless it is None or 0
Or(x, y) == IF x # None /\ x[1] # 0 THEN x ELSE y
\* float(x or 0.0)
FloatOrZero(x) == IF x # None /\ x[1] # 0 THEN x[1] ELSE 0

\* the value ow_current returns when the request or the payload fails
OwFailed == [ow_now |-> FALSE, rain_mm |-> 0]

\* ow_current: rain_mm = float(r.get("1h") or r.get("3h") or 0.0) and the
\* flag rain_mm > OPEN_WEATHER_MIN_RAIN_MM (description, code and temperature
\* are display values and are left out)
ow_current(ok, rain_1h, rain_3h) ==
    IF ~ok THEN OwFailed
    ELSE LET rain_mm == FloatOrZero(Or(rain_1h, rain_3h))
         IN  [ow_now |-> rain_mm > 0, rain_mm |-> rain_mm]

\* the value om_hourly_now_prob_precip_code returns when the request fails
OmFailed == [now_prec |-> 0, now_prob |-> 0, now_code |-> 0, next_prec |-> 0]

\* om_hourly_now_prob_precip_code, lines 247-250: the hourly arrays read at
\* the index idx of the current hour (0-based) and at idx + 1 (temperature
\* and stop_time are display values and are left out)
om_hourly_now_prob_precip_code(ok, precs, probs, codes, idx) ==
    IF ~ok THEN OmFailed
    ELSE [now_prec  |-> IF idx < Len(precs) THEN precs[idx + 1] ELSE 0,
          now_prob  |-> IF idx < Len(probs) THEN probs[idx + 1] ELSE 0,
          now_code  |-> IF idx < Len(codes) THEN codes[idx + 1] ELSE 0,
          next_prec |-> IF idx + 1 < Len(precs) THEN precs[idx + 2] ELSE 0]

\* get_weather_bundle, from the two providers' return values
get_weather_bundle(ow, om) ==
    [ow_now  |-> ow.ow_now,
     om_prob |-> om.now_prob,
     om_code |-> om.now_code,
     mm_now  |-> Max(ow.rain_mm, om.now_prec),
     mm_next |-> om.next_prec]

\* ------------------------------------------------------------------------
\* Rain Classifier
\* ------------------------------------------------------------------------
is_thunder(code) == THUNDER_MIN <= code /\ code <= THUNDER_MAX

\* effective_mm, in 0.05 mm: max(mm_now, 0.5 * mm_next) times NEXT_MM_WEIGHT_DEN
effective_mm(mm_now, mm_next) == Max(NEXT_MM_WEIGHT_DEN * mm_now, mm_next)

bundle_is_rainy(b) ==
    \/ b.mm_now >= NEXT_MM_MIN_MM
    \/ b.mm_next >= NEXT_MM_MIN_MM
    \/ is_thunder(b.om_code)

\* mutant: the waterfall alone, without the leading "no rain" guard
classify_phrase_no_guard(mm_now, prob, code_now, mm_next) ==
    IF is_thunder(code_now) THEN "thunderstorm"
    ELSE IF mm_now >= 300 THEN "torrential"
    ELSE IF mm_now >= 150 THEN "heavy"
    ELSE IF mm_now >= 70 THEN "heavier shower"
    ELSE IF mm_now >= 20 THEN "shower"
    ELSE IF mm_now > 0 THEN "brief shower"
    ELSE IF prob >= 50 \/ mm_next >= NEXT_MM_MIN_MM THEN "possible brief shower"
    ELSE "no rain"

\* classify_phrase_and_icon: the phrase it returns, in English; the mm
\* thresholds 30, 15, 7, 2 are counted in 0.1 mm
classify_phrase_and_icon(mm_now, prob, code_now, mm_next) ==
    IF prob < 10 /\ mm_now < NEXT_MM_MIN_MM /\ ~is_thunder(code_now) THEN "no rain"
    ELSE IF is_thunder(code_now) THEN "thunderstorm"
    ELSE IF mm_now >= 300 THEN "torrential"
    ELSE IF mm_now >= 150 THEN "heavy"
    ELSE IF mm_now >= 70 THEN "heavier shower"
    ELSE IF mm_now >= 20 THEN "shower"
    ELSE IF mm_now > 0 THEN "brief shower"
    ELSE IF prob >= 50 \/ mm_next >= NEXT_MM_MIN_MM THEN "possible brief shower"
    ELSE "no rain"

\* ------------------------------------------------------------------------
\* Route Analyzer
\* ------------------------------------------------------------------------
\* polyline.encode(pts): the encoder's integer deltas, the first point
\* counted from the origin and every later point from its predecessor
Encode(pts) ==
    [k \in 1..Len(pts) |->
        IF k = 1 THEN pts[1]
        ELSE << pts[k][1] - pts[k - 1][1], pts[k][2] - pts[k - 1][2] >>]

\* polyline.decode(enc): the running sums of the deltas
RECURSIVE Decode(_)
Decode(enc) ==
    IF Len(enc) = 0 THEN << >>
    ELSE LET prev == Decode(SubSeq(enc, 1, Len(enc) - 1))
             d    == enc[Len(enc)]
         IN  IF Len(prev) = 0 THEN << d >>
             ELSE Append(prev, << Last(prev)[1] + d[1], Last(prev)[2] + d[2] >>)

\* interval_m of analyze_route's full mode
IntervalFor(total_distance_m) ==
    IF total_distance_m <= LONG_ROUTE_THRESHOLD_KM * 1000
    THEN SAMPLE_INTERVAL_METERS ELSE LONG_INTERVAL_METERS

\* step 1 of analyze_route
SamplesFor(coords, total_distance_m, quick_scan_only) ==
    IF quick_scan_only THEN sample_coords(coords, SAMPLES_FAST)
    ELSE sample_coords_by_distance(coords, IntervalFor(total_distance_m))

\* the keys of grid_points
GridCells(coords_to_check) ==
    { _grid_key(coords_to_check[k][1], coords_to_check[k][2]) :
        k \in 1..Len(coords_to_check) }

\* mutant: one entry a sample, a list in place of the dict
GridPointsPerSample(coords_to_check, n) ==
    [k \in 1..n |->
        [key |-> _grid_key(coords_to_check[k][1], coords_to_check[k][2]),
         pt  |-> coords_to_check[k]]]

\* grid_points.items() after the first n samples: the dict comprehension
\* keeps one entry a key, in the order the keys first appear, and a later
\* sample with the same key replaces the entry's point
RECURSIVE GridPoints(_, _)
GridPoints(coords_to_check, n) ==
    IF n = 0 THEN << >>
    ELSE LET items == GridPoints(coords_to_check, n - 1)
             key   == _grid_key(coords_to_check[n][1], coords_to_check[n][2])
             entry == [key |-> key, pt |-> coords_to_check[n]]
         IN  IF \E k \in 1..Len(items) : items[k].key = key
             THEN [k \in 1..Len(items) |->
                      IF items[k].key = key THEN entry ELSE items[k]]
             ELSE Append(items, entry)

\* step 3 of analyze_route from sample i on: [rainy_cnt, mm_eff_sum]
RECURSIVE RiskLoop(_, _, _, _)
RiskLoop(coords_to_check, results, i, acc) ==
    IF i > Len(coords_to_check) THEN acc
    ELSE LET key == _grid_key(coords_to_check[i][1], coords_to_check[i][2])
         IN  IF key \notin DOMAIN results
             THEN RiskLoop(coords_to_check, results, i + 1, acc)
             ELSE LET b == results[key]
                  IN  RiskLoop(coords_to_check, results, i + 1,
                               [rainy_cnt  |-> acc.rainy_cnt
                                               + (IF bundle_is_rainy(b) THEN 1 ELSE 0),
                                mm_eff_sum |-> acc.mm_eff_sum
                                               + effective_mm(b.mm_now, b.mm_next)])

\* mutant: a point without a bundle is always not rainy
get_weather_state_never_inherits(lat, lon, results, cur_state) ==
    LET grid == _grid_key(lat, lon)
    IN  IF grid \notin DOMAIN results THEN FALSE
        ELSE bundle_is_rainy(results[grid])

\* get_weather_state_for_coord; cur_state is None or Some(state)
get_weather_state_for_coord(lat, lon, results, cur_state) ==
    LET grid == _grid_key(lat, lon)
    IN  IF grid \notin DOMAIN results
        THEN (IF cur_state # None THEN cur_state[1] ELSE FALSE)
        ELSE bundle_is_rainy(results[grid])

\* mutant: a run of a single point is emitted too
SegmentStepEmitsSingleton(g, pt, is_rain) ==
    IF g.cur_state = None
    THEN [segments |-> g.segments, cur_state |-> Some(is_rain),
          cur_pts |-> Append(g.cur_pts, pt)]
    ELSE IF is_rain = g.cur_state[1]
    THEN [g EXCEPT !.cur_pts = Append(g.cur_pts, pt)]
    ELSE [segments  |-> IF Len(g.cur_pts) >= 1
                        THEN Append(g.segments, << g.cur_state[1], Encode(g.cur_pts) >>)
                        ELSE g.segments,
          cur_state |-> Some(is_rain),
          cur_pts   |-> << Last(g.cur_pts), pt >>]

\* mutant: a new run starts at the point of the state change, without the
\* closing point of the run before
SegmentStepNoSharedPoint(g, pt, is_rain) ==
    IF g.cur_state = None
    THEN [segments |-> g.segments, cur_state |-> Some(is_rain),
          cur_pts |-> Append(g.cur_pts, pt)]
    ELSE IF is_rain = g.cur_state[1]
    THEN [g EXCEPT !.cur_pts = Append(g.cur_pts, pt)]
    ELSE [segments  |-> IF Len(g.cur_pts) >= 2
                        THEN Append(g.segments, << g.cur_state[1], Encode(g.cur_pts) >>)
                        ELSE g.segments,
          cur_state |-> Some(is_rain),
          cur_pts   |-> << pt >>]

\* mutant: a run of two points is closed at once, also when the next point
\* has the same state
SegmentStepSplitsRun(g, pt, is_rain) ==
    IF g.cur_state = None
    THEN [segments |-> g.segments, cur_state |-> Some(is_rain),
          cur_pts |-> Append(g.cur_pts, pt)]
    ELSE IF is_rain = g.cur_state[1] /\ Len(g.cur_pts) < 2
    THEN [g EXCEPT !.cur_pts = Append(g.cur_pts, pt)]
    ELSE [segments  |-> IF Len(g.cur_pts) >= 2
                        THEN Append(g.segments, << g.cur_state[1], Encode(g.cur_pts) >>)
                        ELSE g.segments,
          cur_state |-> Some(is_rain),
          cur_pts   |-> << Last(g.cur_pts), pt >>]

\* the body of the loop of step 4; g = [segments, cur_state, cur_pts]
SegmentStep(g, pt, is_rain) ==
    IF g.cur_state = None
    THEN [segments |-> g.segments, cur_state |-> Some(is_rain),
          cur_pts |-> Append(g.cur_pts, pt)]
    ELSE IF is_rain = g.cur_state[1]
    THEN [g EXCEPT !.cur_pts = Append(g.cur_pts, pt)]
    ELSE [segments  |-> IF Len(g.cur_pts) >= 2
                        THEN Append(g.segments, << g.cur_state[1], Encode(g.cur_pts) >>)
                        ELSE g.segments,
          cur_state |-> Some(is_rain),
          cur_pts   |-> << Last(g.cur_pts), pt >>]

\* the loop of step 4 from point i on
RECURSIVE SegmentLoop(_, _, _, _)
SegmentLoop(coords, results, i, g) ==
    IF i > Len(coords) THEN g
    ELSE LET is_rain == get_weather_state_for_coord(coords[i][1], coords[i][2],
                                                    results, g.cur_state)
         IN  SegmentLoop(coords, results, i + 1, SegmentStep(g, coords[i], is_rain))

\* step 4 of analyze_route: the list segments
SegmentsOf(coords, results) ==
    LET g == SegmentLoop(coords, results, 1,
                         [segments |-> << >>, cur_state |-> None, cur_pts |-> << >>])
    IN  IF Len(g.cur_pts) >= 2
        THEN Append(g.segments, << g.cur_state[1], Encode(g.cur_pts) >>)
        ELSE g.segments

\* A fraction num / den is the pair << num, den >>.
\* denominator of the score: tenths of the weights, total_points, and the
\* 0.05 mm of mm_eff_sum over the 30 mm of the intensity term
ScoreDen(total_points) ==
    WEIGHT_DEN * total_points * (NEXT_MM_WEIGHT_DEN * 10 * INTENSITY_NORM_MM)

\* step 5 of analyze_route: score, clamped to [0, 1]
ScoreOf(rainy_cnt, mm_eff_sum, total_points) ==
    LET unit == NEXT_MM_WEIGHT_DEN * 10 * INTENSITY_NORM_MM
        num  == RAIN_RATIO_WEIGHT * rainy_cnt * unit
                + RAIN_INTENSITY_WEIGHT * mm_eff_sum
    IN  << Max(0, Min(ScoreDen(total_points), num)), ScoreDen(total_points) >>

\* return [], 0.0, 0.0, 0.0
ZeroResult ==
    [segments |-> << >>, rain_ratio |-> << 0, 1 >>, avg_mm_eff |-> << 0, 1 >>,
     score |-> << 0, 1 >>]

\* the return value of quick mode
QuickResult(rainy_cnt) ==
    [segments |-> IF rainy_cnt > 0 THEN << TRUE >> ELSE << >>,
     rain_ratio |-> IF rainy_cnt > 0 THEN << 1, 1 >> ELSE << 0, 1 >>,
     avg_mm_eff |-> << 0, 1 >>, score |-> << 0, 1 >>]

\* the return value of full mode; avg_mm_eff is counted in 0.05 mm
FullResult(segs, rainy_cnt, mm_eff_sum, total_points) ==
    [segments |-> segs,
     rain_ratio |-> << rainy_cnt, total_points >>,
     avg_mm_eff |-> << mm_eff_sum, total_points >>,
     score |-> ScoreOf(rainy_cnt, mm_eff_sum, total_points)]

\* ------------------------------------------------------------------------
\* Route Selector
\* ------------------------------------------------------------------------
\* A score is an integer counted in 1e-5; round(score, 4)
Round4(score) == RoundHalfEven(score, 10)

\* mutant: the sort key without the duration
SortKeyScoreOnly(r) == << Round4(r.score), 0 >>

\* the sort key (round(x["score"], 4), x["duration"])
SortKey(r) == << Round4(r.score), r.duration >>

\* Python's tuple comparison k1 < k2
KeyLess(k1, k2) == k1[1] < k2[1] \/ (k1[1] = k2[1] /\ k1[2] < k2[2])

\* sorted(scored, key = ...) as the list of the indices of scored: a stable
\* insertion of index i into the sorted list of the indices before it
RECURSIVE SortedIndices(_, _)
SortedIndices(scored, n) ==
    IF n = 0 THEN << >>
    ELSE LET prev == SortedIndices(scored, n - 1)
             \* elements that stay in front of n: all whose key is not greater
             front == { k \in 1..Len(prev) :
                          ~KeyLess(SortKey(scored[n]), SortKey(scored[prev[k]])) }
             m == Cardinality(front)
         IN  [k \in 1..n |-> IF k <= m THEN prev[k]
                             ELSE IF k = m + 1 THEN n
                             ELSE prev[k - 1]]

\* best = sorted(scored, key = ...)[0], as an index into scored
BestOf(scored) == SortedIndices(scored, Len(scored))[1]

\* others = [r for r in scored if r is not best], as indices into scored
RECURSIVE OthersOf(_, _, _)
OthersOf(scored, best, i) ==
    IF i > Len(scored) THEN << >>
    ELSE IF i = best THEN OthersOf(scored, best, i + 1)
    ELSE << i >> \o OthersOf(scored, best, i + 1)

\* ------------------------------------------------------------------------
\* State
\* ------------------------------------------------------------------------
VARIABLES
    s_pc,          \* sampler: "idle", "ready", "by_distance", "by_count"
    s_coords,      \* sampler: the polyline
    s_interval_m,  \* sampler: interval of sample_coords_by_distance
    s_n_points,    \* sampler: target count of sample_coords
    s_samples,     \* sampler: the returned samples
    l_pc,          \* label: "idle", "ready", "done"
    l_args,        \* label: [mm_now, prob, code_now, mm_next]
    l_phrase,      \* label: the phrase classify_phrase_and_icon returned
    w_pc,          \* fetcher: "idle", "ow", "om", "fuse", "done"
    w_raw,         \* fetcher: what the two providers answer
    w_ow,          \* fetcher: return value of ow_current
    w_om,          \* fetcher: return value of om_hourly_now_prob_precip_code
    w_bundle,      \* fetcher: the bundle get_weather_bundle returned
    r_pc,          \* selector: "idle", "scoring", "done"
    r_routes,      \* selector: durations of the candidate routes
    r_scored,      \* selector: the list scored
    r_best,        \* selector: index in scored of best (0: none yet)
    r_others,      \* selector: indices in scored of others, in list order
    a_pc,          \* analyze_route: "idle", "start", "fetch", "classify",
                   \*                "segment", "score", "done"
    coords,        \* analyze_route: the full polyline
    total_distance_m,
    quick_scan_only,
    coords_to_check,          \* the sample points
    submitted,                \* the ex.submit calls, in order: [key, pt]
    futs,                     \* grid cell -> its future: [st, res]
    collected,                \* cells whose future as_completed has yielded
    weather_results_by_grid,  \* grid cell -> bundle
    rainy_cnt,
    mm_eff_sum,
    segments,
    result         \* analyze_route: the returned tuple

svars == << s_pc, s_coords, s_interval_m, s_n_points, s_samples >>
lvars == << l_pc, l_args, l_phrase >>
wvars == << w_pc, w_raw, w_ow, w_om, w_bundle >>
rvars == << r_pc, r_routes, r_scored, r_best, r_others >>
avars == << a_pc, coords, total_distance_m, quick_scan_only, coords_to_check,
           submitted, futs, collected, weather_results_by_grid, rainy_cnt, mm_eff_sum,
           segments, result >>
vars == << svars, lvars, wvars, rvars, avars >>

NoBundle == [ow_now |-> FALSE, om_prob |-> 0, om_code |-> 0, mm_now |-> 0, mm_next |-> 0]

SamplerIdle ==
    /\ s_pc = "idle"
    /\ s_coords = << >>
    /\ s_interval_m = SAMPLE_INTERVAL_METERS
    /\ s_n_points = SAMPLES_FAST
    /\ s_samples = << >>

LabelIdle ==
    /\ l_pc = "idle"
    /\ l_args = [mm_now |-> 0, prob |-> 0, code_now |-> 0, mm_next |-> 0]
    /\ l_phrase = ""

FetcherIdle ==
    /\ w_pc = "idle"
    /\ w_raw = [ow_ok |-> FALSE, om_ok |-> FALSE, rain_1h |-> None, rain_3h |-> None,
                precs |-> << >>, probs |-> << >>, codes |-> << >>, idx |-> 0]
    /\ w_ow = OwFailed
    /\ w_om = OmFailed
    /\ w_bundle = NoBundle

SelectorIdle ==
    /\ r_pc = "idle"
    /\ r_routes = << >>
    /\ r_scored = << >>
    /\ r_best = 0
    /\ r_others = << >>

\* a function with no argument: the empty dict
EmptyMap == [c \in {} |-> NoBundle]

AnalyzerBlank ==
    /\ coords_to_check = << >>
    /\ submitted = << >>
    /\ futs = EmptyMap
    /\ collected = {}
    /\ weather_results_by_grid = EmptyMap
    /\ rainy_cnt = 0
    /\ mm_eff_sum = 0
    /\ segments = << >>
    /\ result = ZeroResult

AnalyzerIdle ==
    /\ a_pc = "idle"
    /\ coords = << >>
    /\ total_distance_m = 0
    /\ quick_scan_only = FALSE
    /\ AnalyzerBlank

\* ------------------------------------------------------------------------
\* The two sampling functions applied to bounded inputs
\* ------------------------------------------------------------------------
Intervals == {SAMPLE_INTERVAL_METERS, LONG_INTERVAL_METERS}
TargetCounts == (1..MaxLen) \cup {SAMPLES_FAST}

InitSampler ==
    /\ s_pc = "ready"
    /\ s_coords \in SeqsOf(Points, 0, MaxLen)
    /\ s_interval_m \in Intervals
    /\ s_n_points \in TargetCounts
    /\ s_samples = << >>
    /\ LabelIdle /\ FetcherIdle /\ SelectorIdle /\ AnalyzerIdle

CallSampleByDistance ==
    /\ s_pc = "ready"
    /\ s_samples' = sample_coords_by_distance(s_coords, s_interval_m)
    /\ s_pc' = "by_distance"
    /\ UNCHANGED << s_coords, s_interval_m, s_n_points, lvars, wvars, rvars, avars >>

CallSampleByCount ==
    /\ s_pc = "ready"
    /\ s_samples' = sample_coords(s_coords, s_n_points)
    /\ s_pc' = "by_count"
    /\ UNCHANGED << s_coords, s_interval_m, s_n_points, lvars, wvars, rvars, avars >>

NextSampler == CallSampleByDistance \/ CallSampleByCount

SpecSampler == InitSampler /\ [][NextSampler]_vars

\* ------------------------------------------------------------------------
\* classify_phrase_and_icon applied to bounded inputs
\* ------------------------------------------------------------------------
LabelMm == {0, 1, 2, 19, 20, 69, 70, 149, 150, 299, 300, 500}
LabelProb == {0, 9, 10, 49, 50, 100}
LabelCode == {0, 61, 94, 95, 99, 100}
LabelNextMm == {0, 1, 2, 50}

InitLabel ==
    /\ l_pc = "ready"
    /\ l_args \in [mm_now : LabelMm, prob : LabelProb,
                   code_now : LabelCode, mm_next : LabelNextMm]
    /\ l_phrase = ""
    /\ SamplerIdle /\ FetcherIdle /\ SelectorIdle /\ AnalyzerIdle

CallClassifyPhrase ==
    /\ l_pc = "ready"
    /\ l_phrase' = classify_phrase_and_icon(l_args.mm_now, l_args.prob,
                                            l_args.code_now, l_args.mm_next)
    /\ l_pc' = "done"
    /\ UNCHANGED << l_args, svars, wvars, rvars, avars >>

NextLabel == CallClassifyPhrase

SpecLabel == InitLabel /\ [][NextLabel]_vars

\* ------------------------------------------------------------------------
\* get_weather_bundle on bounded provider answers
\* ------------------------------------------------------------------------
RawRain == {None, Some(-5), Some(0), Some(12)}
RawRain3h == {None, Some(7)}
RawPrecs == SeqsOf({-5, 0, 3}, 0, 2)
RawProbs == SeqsOf({-5, 40, 150}, 0, 2)
RawCodes == SeqsOf({0, 95}, 0, 1)

InitFetcher ==
    /\ w_pc = "ow"
    /\ w_raw \in [ow_ok : BOOLEAN, om_ok : BOOLEAN, rain_1h : RawRain,
                  rain_3h : RawRain3h, precs : RawPrecs, probs : RawProbs,
                  codes : RawCodes, idx : 0..1]
    /\ w_ow = OwFailed
    /\ w_om = OmFailed
    /\ w_bundle = NoBundle
    /\ SamplerIdle /\ LabelIdle /\ SelectorIdle /\ AnalyzerIdle

\* ow_desc, ow_now, ow_mm, ow_code, ow_temp = _ow_current_cached(glat, glon)
CallOwCurrent ==
    /\ w_pc = "ow"
    /\ w_ow' = ow_current(w_raw.ow_ok, w_raw.rain_1h, w_raw.rain_3h)
    /\ w_pc' = "om"
    /\ UNCHANGED << w_raw, w_om, w_bundle, svars, lvars, rvars, avars >>

\* om_now_prec, om_prob, om_code, om_next_prec, ... = _om_hourly_cached(glat, glon)
CallOmHourly ==
    /\ w_pc = "om"
    /\ w_om' = om_hourly_now_prob_precip_code(w_raw.om_ok, w_raw.precs, w_raw.probs,
                                              w_raw.codes, w_raw.idx)
    /\ w_pc' = "fuse"
    /\ UNCHANGED << w_raw, w_ow, w_bundle, svars, lvars, rvars, avars >>

ReturnBundle ==
    /\ w_pc = "fuse"
    /\ w_bundle' = get_weather_bundle(w_ow, w_om)
    /\ w_pc' = "done"
    /\ UNCHANGED << w_raw, w_ow, w_om, svars, lvars, rvars, avars >>

NextFetcher == CallOwCurrent \/ CallOmHourly \/ ReturnBundle

SpecFetcher == InitFetcher /\ [][NextFetcher]_vars

\* ------------------------------------------------------------------------
\* Route selection of do_query on bounded candidate routes
\* ------------------------------------------------------------------------
Durations == {90, 100}
Scores == {40000, 40004, 40005, 40015, 41000}

InitSelector ==
    /\ r_pc = "scoring"
    /\ r_routes \in SeqsOf(Durations, 1, MaxRoutes)
    /\ r_scored = << >>
    /\ r_best = 0
    /\ r_others = << >>
    /\ SamplerIdle /\ LabelIdle /\ FetcherIdle /\ AnalyzerIdle

\* one turn of the loop over routes: analyze_route gives the score
ScoreRoute ==
    /\ r_pc = "scoring"
    /\ Len(r_scored) < Len(r_routes)
    /\ \E score \in Scores :
         r_scored' = Append(r_scored,
                            [duration |-> r_routes[Len(r_scored) + 1], score |-> score])
    /\ UNCHANGED << r_pc, r_routes, r_best, r_others, svars, lvars, wvars, avars >>

SelectBest ==
    /\ r_pc = "scoring"
    /\ Len(r_scored) = Len(r_routes)
    /\ r_best' = BestOf(r_scored)
    /\ r_others' = OthersOf(r_scored, BestOf(r_scored), 1)
    /\ r_pc' = "done"
    /\ UNCHANGED << r_routes, r_scored, svars, lvars, wvars, avars >>

NextSelector == ScoreRoute \/ SelectBest

SpecSelector == InitSelector /\ [][NextSelector]_vars

\* ------------------------------------------------------------------------
\* analyze_route on bounded routes and weather
\* ------------------------------------------------------------------------
BundleClear ==
    [ow_now |-> FALSE, om_prob |-> 5, om_code |-> 0, mm_now |-> 0, mm_next |-> 0]
BundleShower ==
    [ow_now |-> TRUE, om_prob |-> 80, om_code |-> 61, mm_now |-> 50, mm_next |-> 0]
BundleDownpour ==
    [ow_now |-> TRUE, om_prob |-> 100, om_code |-> 95, mm_now |-> 1200, mm_next |-> 300]
RouteBundles == {BundleClear, BundleShower, BundleDownpour}

RouteLats == {900, 1100, 3000}
RoutePoints == RouteLats \X Lons
RouteDistances == {LONG_ROUTE_THRESHOLD_KM * 1000, LONG_ROUTE_THRESHOLD_KM * 1000 + 1}

InitAnalyzer ==
    /\ a_pc = "start"
    /\ coords \in SeqsOf(RoutePoints, 0, MaxRouteLen)
    /\ quick_scan_only \in BOOLEAN
    /\ total_distance_m \in RouteDistances
    /\ quick_scan_only => total_distance_m = LONG_ROUTE_THRESHOLD_KM * 1000
    /\ AnalyzerBlank
    /\ SamplerIdle /\ LabelIdle /\ FetcherIdle /\ SelectorIdle

\* if not coords: return [], 0.0, 0.0, 0.0
ReturnEmptyRoute ==
    /\ a_pc = "start"
    /\ Len(coords) = 0
    /\ result' = ZeroResult
    /\ a_pc' = "done"
    /\ UNCHANGED << coords, total_distance_m, quick_scan_only, coords_to_check,
                    futs, collected, weather_results_by_grid, rainy_cnt,
                    mm_eff_sum, segments, submitted, svars, lvars, wvars, rvars >>

\* steps 1 and 2 up to the submits: the samples, grid_points, one future a cell
SampleAndSubmit ==
    /\ a_pc = "start"
    /\ Len(coords) > 0
    /\ LET samples == SamplesFor(coords, total_distance_m, quick_scan_only)
       IN  /\ coords_to_check' = samples
           /\ submitted' = GridPoints(samples, Len(samples))
           /\ futs' = [c \in GridCells(samples) |-> [st |-> "running", res |-> NoBundle]]
    /\ a_pc' = "fetch"
    /\ UNCHANGED << coords, total_distance_m, quick_scan_only, collected,
                    weather_results_by_grid, rainy_cnt, mm_eff_sum, segments,
                    result, svars, lvars, wvars, rvars >>

\* a worker thread: get_weather_bundle returns the bundle of the cell
WorkerReturns(c) ==
    /\ a_pc = "fetch"
    /\ futs[c].st = "running"
    /\ \E b \in RouteBundles : futs' = [futs EXCEPT ![c] = [st |-> "returned", res |-> b]]
    /\ UNCHANGED << a_pc, coords, total_distance_m, quick_scan_only, coords_to_check,
                    collected, weather_results_by_grid, rainy_cnt, mm_eff_sum,
                    segments, result, submitted, svars, lvars, wvars, rvars >>

\* a worker thread: get_weather_bundle raises
WorkerRaises(c) ==
    /\ a_pc = "fetch"
    /\ futs[c].st = "running"
    /\ futs' = [futs EXCEPT ![c] = [st |-> "raised", res |-> NoBundle]]
    /\ UNCHANGED << a_pc, coords, total_distance_m, quick_scan_only, coords_to_check,
                    collected, weather_results_by_grid, rainy_cnt, mm_eff_sum,
                    segments, result, submitted, svars, lvars, wvars, rvars >>

\* one turn of `for f in as_completed(futs)`: f.result() stored, or the
\* exception passed over
CollectFuture(c) ==
    /\ a_pc = "fetch"
    /\ c \notin collected
    /\ futs[c].st # "running"
    /\ collected' = collected \cup {c}
    /\ weather_results_by_grid' =
           IF futs[c].st = "returned"
           THEN [k \in DOMAIN weather_results_by_grid \cup {c} |->
                    IF k = c THEN futs[c].res ELSE weather_results_by_grid[k]]
           ELSE weather_results_by_grid
    /\ UNCHANGED << a_pc, coords, total_distance_m, quick_scan_only, coords_to_check,
                    futs, rainy_cnt, mm_eff_sum, segments, result,
                    submitted, svars, lvars, wvars, rvars >>

\* mutant: the loop over as_completed stops after the first future it yields
FanInEarly ==
    /\ a_pc = "fetch"
    /\ collected # {}
    /\ IF DOMAIN weather_results_by_grid = {}
       THEN result' = ZeroResult /\ a_pc' = "done"
       ELSE result' = result /\ a_pc' = "classify"
    /\ UNCHANGED << coords, total_distance_m, quick_scan_only, coords_to_check,
                    futs, collected, weather_results_by_grid, rainy_cnt,
                    mm_eff_sum, segments, submitted, svars, lvars, wvars, rvars >>

\* the loop over as_completed is over, the pool is shut down
FanIn ==
    /\ a_pc = "fetch"
    /\ collected = DOMAIN futs
    /\ IF DOMAIN weather_results_by_grid = {}
       THEN result' = ZeroResult /\ a_pc' = "done"
       ELSE result' = result /\ a_pc' = "classify"
    /\ UNCHANGED << coords, total_distance_m, quick_scan_only, coords_to_check,
                    futs, collected, weather_results_by_grid, rainy_cnt,
                    mm_eff_sum, segments, submitted, svars, lvars, wvars, rvars >>

\* step 3, and the return of quick mode
CountRisk ==
    /\ a_pc = "classify"
    /\ LET acc == RiskLoop(coords_to_check, weather_results_by_grid, 1,
                           [rainy_cnt |-> 0, mm_eff_sum |-> 0])
       IN  /\ rainy_cnt' = acc.rainy_cnt
           /\ mm_eff_sum' = acc.mm_eff_sum
           /\ IF quick_scan_only
              THEN result' = QuickResult(acc.rainy_cnt) /\ a_pc' = "done"
              ELSE result' = result /\ a_pc' = "segment"
    /\ UNCHANGED << coords, total_distance_m, quick_scan_only, coords_to_check,
                    futs, collected, weather_results_by_grid, segments,
                    submitted, svars, lvars, wvars, rvars >>

\* step 4
Segmentation ==
    /\ a_pc = "segment"
    /\ segments' = SegmentsOf(coords, weather_results_by_grid)
    /\ a_pc' = "score"
    /\ UNCHANGED << coords, total_distance_m, quick_scan_only, coords_to_check,
                    futs, collected, weather_results_by_grid, rainy_cnt,
                    mm_eff_sum, result, submitted, svars, lvars, wvars, rvars >>

\* step 5 and the return of full mode
ScoreAndReturn ==
    /\ a_pc = "score"
    /\ result' = FullResult(segments, rainy_cnt, mm_eff_sum, Len(coords_to_check))
    /\ a_pc' = "done"
    /\ UNCHANGED << coords, total_distance_m, quick_scan_only, coords_to_check,
                    futs, collected, weather_results_by_grid, rainy_cnt,
                    mm_eff_sum, segments, submitted, svars, lvars, wvars, rvars >>

NextAnalyzer ==
    \/ ReturnEmptyRoute
    \/ SampleAndSubmit
    \/ \E c \in DOMAIN futs : WorkerReturns(c)
    \/ \E c \in DOMAIN futs : WorkerRaises(c)
    \/ \E c \in DOMAIN futs : CollectFuture(c)
    \/ FanIn
    \/ CountRisk
    \/ Segmentation
    \/ ScoreAndReturn

SpecAnalyzer == InitAnalyzer /\ [][NextAnalyzer]_vars

\* ------------------------------------------------------------------------
\* Claims about the Geo-Sampler (checked under SpecSampler)
\* ------------------------------------------------------------------------
SamplerCalled == s_pc \in {"by_distance", "by_count"}

\* C3 (as claimed): for every non-empty polyline the output of
\* sample_coords_by_distance and of sample_coords starts with the input's
\* first point and ends with the input's last point.
C3_EndpointsKept ==
    (SamplerCalled /\ Len(s_coords) > 0) =>
        /\ Len(s_samples) > 0
        /\ s_samples[1] = s_coords[1]
        /\ Last(s_samples) = Last(s_coords)

\* C4 (as claimed): for every polyline of length 0, 1 or 2 both sampling
\* functions return the input unchanged.
C4_ShortInputUnchanged ==
    (SamplerCalled /\ Len(s_coords) <= 2) => s_samples = s_coords

\* C4 (amended): sample_coords returns a polyline of length <= 2 unchanged;
\* sample_coords_by_distance returns a polyline of length 0 or 1 unchanged,
\* returns one of length 2 unchanged when its two points are distinct and less
\* than one interval apart, returns a single point when the two points are
\* equal, and inserts interpolated points when they are more than one
\* interval apart.
C4_ShortInputAmended ==
    /\ (s_pc = "by_count" /\ Len(s_coords) <= 2) => s_samples = s_coords
    /\ (s_pc = "by_distance" /\ Len(s_coords) <= 1) => s_samples = s_coords
    /\ (s_pc = "by_distance" /\ Len(s_coords) = 2) =>
           LET d == geodesic(s_coords[1], s_coords[2])
           IN  /\ (s_coords[1] # s_coords[2] /\ d < s_interval_m)
                      => s_samples = s_coords
               /\ s_coords[1] = s_coords[2] => s_samples = << s_coords[1] >>
               /\ d > s_interval_m =>
                      /\ Len(s_samples) > 2
                      /\ s_samples[1] = s_coords[1]
                      /\ Last(s_samples) = s_coords[2]

\* witness of C4: a two-point polyline with a leg longer than the interval has
\* gone through sample_coords_by_distance and come back with more points
C4_Witness ==
    /\ s_pc = "by_distance"
    /\ Len(s_coords) = 2
    /\ geodesic(s_coords[1], s_coords[2]) >= s_interval_m
    /\ Len(s_samples) > 2

\* C5 (as claimed): the k-th interpolated sample of sample_coords_by_distance
\* lies exactly k intervals along the path from the first point.
C5_SamplesAtIntervalMultiples ==
    s_pc = "by_distance" =>
        LET marks == InterpolatedMarks(s_coords, s_interval_m)
        IN  \A k \in 1..Len(marks) : marks[k] = k * s_interval_m

\* ------------------------------------------------------------------------
\* Claims about the severity label (checked under SpecLabel)
\* ------------------------------------------------------------------------
\* the ordered waterfall as the claim words it
SeverityWaterfall(mm_now, prob, code_now, mm_next) ==
    CASE THUNDER_MIN <= code_now /\ code_now <= THUNDER_MAX -> "thunderstorm"
      [] OTHER ->
         CASE mm_now >= 300 -> "torrential"
           [] mm_now < 300 /\ mm_now >= 150 -> "heavy"
           [] mm_now < 150 /\ mm_now >= 70 -> "heavier shower"
           [] mm_now < 70 /\ mm_now >= 20 -> "shower"
           [] mm_now < 20 /\ mm_now > 0 -> "brief shower"
           [] OTHER -> IF prob >= 50 \/ mm_next >= 2
                       THEN "possible brief shower" ELSE "no rain"

\* the inputs on which classify_phrase_and_icon answers before the waterfall
QuietInput(a) ==
    /\ a.prob < 10
    /\ a.mm_now < 2
    /\ ~(95 <= a.code_now /\ a.code_now <= 99)

\* C6 (as claimed): the label is the ordered waterfall for every input; any
\* now_mm > 0 gives a shower-or-stronger label and any next_mm >= 0.2 with
\* now_mm = 0 gives "possible brief shower", whatever the probability.
C6_LabelIsWaterfall ==
    l_pc = "done" =>
        l_phrase = SeverityWaterfall(l_args.mm_now, l_args.prob,
                                     l_args.code_now, l_args.mm_next)

\* C6 (amended): when probability < 10, now_mm < 0.2 and the code is no
\* thunderstorm code the label is "no rain"; for every other input it is the
\* ordered waterfall.
C6_LabelAmended ==
    l_pc = "done" =>
        IF QuietInput(l_args)
        THEN l_phrase = "no rain"
        ELSE l_phrase = SeverityWaterfall(l_args.mm_now, l_args.prob,
                                          l_args.code_now, l_args.mm_next)

\* witness of C6: a trace of rain now (0.1 mm) and rain forecast for the next
\* hour, with a probability under 10, has been labelled "no rain"
C6_Witness ==
    /\ l_pc = "done"
    /\ l_args.mm_now = 1
    /\ l_args.mm_next >= 2
    /\ l_args.prob < 10
    /\ l_phrase = "no rain"

\* ------------------------------------------------------------------------
\* Claims about the weather bundle (checked under SpecFetcher)
\* ------------------------------------------------------------------------
\* C10 (as claimed): every bundle get_weather_bundle returns has mm_now >= 0,
\* mm_next >= 0 and a probability within 0..100, whatever the providers return.
C10_BundleInRange ==
    w_pc = "done" =>
        /\ w_bundle.mm_now >= 0
        /\ w_bundle.mm_next >= 0
        /\ w_bundle.om_prob >= 0
        /\ w_bundle.om_prob <= 100

\* ------------------------------------------------------------------------
\* Claims about the route selection (checked under SpecSelector)
\* ------------------------------------------------------------------------
\* k1 <= k2 for keys (round(score, 4), duration)
KeyAtMost(r1, r2) ==
    LET s1 == RoundHalfEven(r1.score, 10)
        s2 == RoundHalfEven(r2.score, 10)
    IN  s1 < s2 \/ (s1 = s2 /\ r1.duration <= r2.duration)

\* C8: the route chosen as best has the lexicographically smallest key
\* (round(score, 4), duration) among the analyzed candidates, and others is
\* exactly the remaining candidates in their original relative order.
C8_BestHasSmallestKey ==
    r_pc = "done" =>
        /\ r_best \in 1..Len(r_scored)
        /\ \A i \in 1..Len(r_scored) : KeyAtMost(r_scored[r_best], r_scored[i])
        /\ Len(r_others) = Len(r_scored) - 1
        /\ \A k \in 1..Len(r_others) :
               r_others[k] = IF k < r_best THEN k ELSE k + 1

\* witness of C8: scores 0.41, 0.40, 0.40 with durations 100, 100, 90 have been
\* ranked, and the third route is best
C8_Witness ==
    /\ r_pc = "done"
    /\ Len(r_scored) = 3
    /\ r_scored[1] = [duration |-> 100, score |-> 41000]
    /\ r_scored[2] = [duration |-> 100, score |-> 40000]
    /\ r_scored[3] = [duration |-> 90, score |-> 40000]
    /\ r_best = 3
    /\ r_others = << 1, 2 >>

\* ------------------------------------------------------------------------
\* Claims about analyze_route (checked under SpecAnalyzer)
\* ------------------------------------------------------------------------
\* a full-mode call has returned with at least one weather result
FullDone ==
    /\ a_pc = "done"
    /\ ~quick_scan_only
    /\ DOMAIN weather_results_by_grid # {}

CellOf(pt) == _grid_key(pt[1], pt[2])

\* the rain state of every point of the polyline, in order: the state of its
\* cell's bundle, and without a bundle the state of the point before it
\* (not rainy for the first point)
RECURSIVE PointStates(_, _, _)
PointStates(pts, results, n) ==
    IF n = 0 THEN << >>
    ELSE LET before == PointStates(pts, results, n - 1)
             here   == IF CellOf(pts[n]) \in DOMAIN results
                       THEN bundle_is_rainy(results[CellOf(pts[n])])
                       ELSE IF n = 1 THEN FALSE ELSE before[n - 1]
         IN  Append(before, here)

\* the point lists of the segments put together, the shared first point of
\* every segment after the first dropped
RECURSIVE Rebuilt(_)
Rebuilt(segs) ==
    IF Len(segs) = 0 THEN << >>
    ELSE LET before == Rebuilt(SubSeq(segs, 1, Len(segs) - 1))
             pts    == Decode(Last(segs)[2])
         IN  IF Len(segs) = 1 THEN pts ELSE before \o Tail(pts)

\* the state of every leg of the polyline the segments cover, in order
RECURSIVE LegStates(_)
LegStates(segs) ==
    IF Len(segs) = 0 THEN << >>
    ELSE LegStates(SubSeq(segs, 1, Len(segs) - 1))
         \o [k \in 1..(Len(Last(segs)[2]) - 1) |-> Last(segs)[1]]

SegmentStates(segs) == [k \in 1..Len(segs) |-> segs[k][1]]

\* C1 (as claimed): for every polyline of a full-mode call with at least one
\* weather result, the segments' point lists put together, the shared
\* boundary points dropped, are the original polyline.
C1_RoundTrip ==
    FullDone => Rebuilt(result.segments) = coords

\* C1 (amended): the same for every polyline of at least two points; a
\* polyline of one point yields no segment.
C1_RoundTripAmended ==
    FullDone =>
        /\ Len(coords) >= 2 => Rebuilt(result.segments) = coords
        /\ Len(coords) = 1 => result.segments = << >>

\* witness of C1: a call has returned two or more segments, the first of them
\* starting with a run of a single point
C1_Witness ==
    /\ FullDone
    /\ Len(coords) >= 3
    /\ Len(result.segments) >= 2
    /\ LET st == PointStates(coords, weather_results_by_grid, Len(coords))
       IN  st[1] # st[2]

\* the states are clear (a points), rainy (b points), clear (the rest)
ClearRainyClear(st, a, b) ==
    /\ a >= 1 /\ b >= 1 /\ a + b < Len(st)
    /\ \A i \in 1..Len(st) : st[i] = (a < i /\ i <= a + b)

\* C2 (as claimed): when the per-point states are clear, rainy, clear, also
\* with a leading clear run of one point, the segments are one rainy segment
\* with a clear segment before it and a clear segment after it.
C2_ClearRainClear ==
    FullDone =>
        LET st == PointStates(coords, weather_results_by_grid, Len(coords))
        IN  \A a, b \in 1..Len(coords) :
                ClearRainyClear(st, a, b) =>
                    SegmentStates(result.segments) = << FALSE, TRUE, FALSE >>

\* C2 (amended): when the per-point states are clear, rainy, clear and the
\* leading clear run has at least two points, the segments are clear, rainy,
\* clear, each sharing its first point with the one before; when the leading
\* clear run is a single point, the segments are a rainy one that starts at
\* the first point and a clear one after it.
C2_ClearRainClearAmended ==
    FullDone =>
        LET st == PointStates(coords, weather_results_by_grid, Len(coords))
            n  == Len(coords)
        IN  \A a, b \in 1..n :
                ClearRainyClear(st, a, b) =>
                    IF a >= 2
                    THEN result.segments =
                           << << FALSE, Encode(SubSeq(coords, 1, a)) >>,
                              << TRUE, Encode(SubSeq(coords, a, a + b)) >>,
                              << FALSE, Encode(SubSeq(coords, a + b, n)) >> >>
                    ELSE result.segments =
                           << << TRUE, Encode(SubSeq(coords, 1, 1 + b)) >>,
                              << FALSE, Encode(SubSeq(coords, 1 + b, n)) >> >>

\* witness of C2: two clear points, a rainy one and a clear one have been
\* segmented into three segments
C2_Witness ==
    /\ FullDone
    /\ Len(coords) = 4
    /\ PointStates(coords, weather_results_by_grid, 4) = << FALSE, FALSE, TRUE, FALSE >>
    /\ Len(result.segments) = 3

\* C7 (as claimed): the score of a full-mode analysis is
\* clamp01(0.7 * rain_ratio + 0.3 * min(1, avg_effective_mm / 30)).
\* With mm_eff_sum counted in 0.05 mm, avg_effective_mm / 30 is
\* mm_eff_sum / (600 * total_points).
C7_ScoreCapsIntensity ==
    FullDone =>
        LET t   == Len(coords_to_check)
            num == 7 * 600 * rainy_cnt + 3 * Min(600 * t, mm_eff_sum)
            den == 10 * 600 * t
        IN  result.score = << Max(0, Min(den, num)), den >>

\* the cells whose fetch raised
FailedCells == { c \in DOMAIN futs : futs[c].st = "raised" }

RECURSIVE SumEffective(_, _, _)
SumEffective(samples, results, n) ==
    IF n = 0 THEN 0
    ELSE SumEffective(samples, results, n - 1)
         + (IF CellOf(samples[n]) \in DOMAIN results
            THEN Max(2 * results[CellOf(samples[n])].mm_now,
                     results[CellOf(samples[n])].mm_next)
            ELSE 0)

\* the samples of a failed cell add 0 mm and are not counted rainy
FailedSamplesNeutral ==
    /\ DOMAIN weather_results_by_grid = DOMAIN futs \ FailedCells
    /\ rainy_cnt = Cardinality({ k \in 1..Len(coords_to_check) :
                        /\ CellOf(coords_to_check[k]) \notin FailedCells
                        /\ bundle_is_rainy(weather_results_by_grid[CellOf(coords_to_check[k])]) })
    /\ mm_eff_sum = SumEffective(coords_to_check, weather_results_by_grid,
                                 Len(coords_to_check))
    /\ result.rain_ratio = << rainy_cnt, Len(coords_to_check) >>
    /\ result.avg_mm_eff = << mm_eff_sum, Len(coords_to_check) >>

Classified ==
    \/ a_pc \in {"segment", "score"}
    \/ (a_pc = "done" /\ DOMAIN weather_results_by_grid # {})

SampleCells == { CellOf(coords_to_check[k]) : k \in 1..Len(coords_to_check) }

\* the samples whose own cell has a bundle that is rainy
RainySamples ==
    { k \in 1..Len(coords_to_check) :
        /\ CellOf(coords_to_check[k]) \in DOMAIN weather_results_by_grid
        /\ bundle_is_rainy(weather_results_by_grid[CellOf(coords_to_check[k])]) }

\* C11: within one analyze_route call a weather fetch is submitted at most
\* once for every distinct grid cell of the samples, however many samples lie
\* in the cell: no two submit calls have the same cell, every submit call is
\* for a point of its cell, and the cells submitted are the cells of the
\* samples; every sample is then classified by the bundle of its own cell.
C11_OneFetchPerCell ==
    /\ \A i, j \in 1..Len(submitted) :
           submitted[i].key = submitted[j].key => i = j
    /\ \A i \in 1..Len(submitted) : CellOf(submitted[i].pt) = submitted[i].key
    /\ a_pc # "start" =>
           /\ { submitted[i].key : i \in 1..Len(submitted) } = SampleCells
           /\ DOMAIN futs = SampleCells
    /\ Classified =>
           /\ rainy_cnt = Cardinality(RainySamples)
           /\ mm_eff_sum = SumEffective(coords_to_check, weather_results_by_grid,
                                        Len(coords_to_check))

\* witness of C11: several samples lie in one cell, one fetch was submitted
\* for it, and all of them were counted rainy from that one bundle
C11_Witness ==
    /\ Classified
    /\ Cardinality(SampleCells) >= 2
    /\ \E j, k \in RainySamples :
           j # k /\ CellOf(coords_to_check[j]) = CellOf(coords_to_check[k])
    /\ Len(submitted) < Len(coords_to_check)

\* every submitted fetch has returned or raised
AllSettled == \A c \in DOMAIN futs : futs[c].st \in {"returned", "raised"}

\* the bundles of the fetches that returned, by cell
SucceededResults ==
    [c \in { k \in DOMAIN futs : futs[k].st = "returned" } |-> futs[c].res]

\* the call is past the pool block
PastFanIn ==
    \/ a_pc \in {"classify", "segment", "score"}
    \/ (a_pc = "done" /\ Len(coords) > 0)

\* C12: under every interleaving of the workers, counting the rainy samples
\* and segmentation start only after every submitted fetch has returned or
\* raised, and the cell-to-bundle map then holds exactly the results of the
\* fetches that returned: while a fetch is still running nothing has been
\* counted or segmented, and past the pool block every fetch is settled and
\* the map is the map of the returned bundles.
C12_FanInBeforeClassification ==
    /\ ~AllSettled => (rainy_cnt = 0 /\ mm_eff_sum = 0 /\ segments = << >>
                       /\ a_pc = "fetch")
    /\ PastFanIn => (AllSettled /\ weather_results_by_grid = SucceededResults)

\* witness of C12: segmentation is reached with three fetches submitted, one
\* of which raised and two of which returned different bundles
C12_Witness ==
    /\ a_pc = "segment"
    /\ Cardinality(DOMAIN futs) = 3
    /\ Cardinality(FailedCells) = 1
    /\ \E c, d \in DOMAIN weather_results_by_grid :
           weather_results_by_grid[c] # weather_results_by_grid[d]
    /\ rainy_cnt > 0

\* C13: in the segment list a full-mode analyze_route returns, any two
\* consecutive segments have different rain states, for every polyline and
\* every assignment of states to its points, also when the first run is a
\* single point that is not emitted on its own.
C13_NeighboursDiffer ==
    FullDone =>
        \A k \in 1..(Len(result.segments) - 1) :
            result.segments[k][1] # result.segments[k + 1][1]

\* witness of C13: four points whose states alternate, the first run a
\* single point, have been returned as three segments
C13_Witness ==
    /\ FullDone
    /\ Len(coords) = 4
    /\ LET st == PointStates(coords, weather_results_by_grid, 4)
       IN  st[1] # st[2] /\ st[2] # st[3] /\ st[3] # st[4]
    /\ Len(result.segments) = 3

=============================================================================
